---- MODULE Spec2Model ----
(***************************************************************************)
(* The palette (CLUT) cache of the GS emulation: pcsx2/GS/GSClut.cpp.      *)
(*                                                                         *)
(* Registers are records of the bit fields the code reads.  A 16-bit       *)
(* palette entry is an integer in 0..65535; a 32-bit value is the pair     *)
(* <<low half, high half>> of its 16-bit halves (little endian), so that   *)
(* no value leaves the range of TLC's integers.  A GSVector4i is the       *)
(* tuple of its eight 16-bit lanes.                                        *)
(***************************************************************************)
EXTENDS Integers, Sequences, FiniteSets, TLC

----------------------------------------------------------------------------
(* Pixel storage formats (the PSM / CPSM register codes).                  *)

PSM_PSMCT32 == 0
PSM_PSMCT24 == 1
PSM_PSMCT16 == 2
PSM_PSMCT16S == 10
PSM_PSMT8 == 19
PSM_PSMT4 == 20
PSM_PSMT8H == 27
PSM_PSMT4HL == 36
PSM_PSMT4HH == 44
PSM_PSMZ16 == 50
PSM_PSMZ16S == 58
PSM_PSGPU24 == 18
PSM_PSMZ24 == 49

\* The five indexed formats and the four colour formats a palette may use.
IndexedPSM == {PSM_PSMT8, PSM_PSMT8H, PSM_PSMT4, PSM_PSMT4HL, PSM_PSMT4HH}
Pal256PSM == {PSM_PSMT8, PSM_PSMT8H}
Pal16PSM == {PSM_PSMT4, PSM_PSMT4HL, PSM_PSMT4HH}
ColorCPSM == {PSM_PSMCT32, PSM_PSMCT24, PSM_PSMCT16, PSM_PSMCT16S}

\* GSLocalMemory::m_psm[psm].bpp: bits one pixel occupies in memory.
PsmBpp(psm) ==
    IF psm \in {PSM_PSMCT16, PSM_PSMCT16S, PSM_PSGPU24, PSM_PSMZ16, PSM_PSMZ16S} THEN 16
    ELSE IF psm = PSM_PSMT8 THEN 8
    ELSE IF psm = PSM_PSMT4 THEN 4
    ELSE 32

\* GSLocalMemory::m_psm[psm].trbpp: bits of one pixel that are transferred.
PsmTrbpp(psm) ==
    IF psm \in {PSM_PSMCT24, PSM_PSMZ24} THEN 24
    ELSE IF psm \in {PSM_PSMCT16, PSM_PSMCT16S, PSM_PSGPU24, PSM_PSMZ16, PSM_PSMZ16S} THEN 16
    ELSE IF psm \in Pal256PSM THEN 8
    ELSE IF psm \in Pal16PSM THEN 4
    ELSE 32

\* GSLocalMemory::m_psm[psm].pal: entries of the palette the format indexes.
PsmPal(psm) ==
    IF psm \in Pal256PSM THEN 256
    ELSE IF psm \in Pal16PSM THEN 16
    ELSE 0

----------------------------------------------------------------------------
(* Sizes of the three buffers carved out of the one allocation.            *)

\* CLUT_ALLOC_SIZE: bytes of the allocation.
CLUT_ALLOC_SIZE == 8192
\* m_clut = p[0], m_buff32 = p[2048]: 2048 bytes, 1024 entries of 16 bits.
ClutEntries == 1024
\* m_buff32 = p[2048]; // 1k: 256 entries of 32 bits.
Buff32Entries == 256
\* m_buff64 = p[4096]; // 2k: 256 entries of 64 bits.
Buff64Entries == 256

U16 == 65536

----------------------------------------------------------------------------
(* Bit operations on the small fields the code masks.                      *)

\* x: what a mask that keeps every bit leaves.
AllBits(x) == x
\* x & 7
Low3(x) == x % 8
\* x & 15
Low4(x) == x % 16

\* An address that is not clamped.
Uncapped(a, b) == a
Min(a, b) == IF a < b THEN a ELSE b
SetMin(S) == CHOOSE x \in S : \A y \in S : x <= y
SetMax(S) == 0 - SetMin({0 - x : x \in S})

----------------------------------------------------------------------------
(* Local memory as the load routines see it.  An image of the memory is    *)
(* one of a few fixed contents; a source address is the block the pointer  *)
(* functions return.  Mem16(img, a, j) is 16-bit lane j counted from       *)
(* address a; the 32-bit word k of a source is its lanes 2k and 2k + 1.    *)

\* Lane j of the memory at source address a under image img.
Mem16(img, a, j) == (4099 * j + 257 * a + 12345 * img) % U16

\* BlockPtr32(0, 0, bp, 1) and BlockPtr16(0, 0, bp, 1): the block at bp.
BlockPtr(bp) == bp
\* BlockPtr16S(0, 0, bp, 1): the 16S swizzle puts the block elsewhere.
BlockPtr16S(bp) == bp + 16384
\* GSOffset::fromKnownPSM(CBP, CBW, psm).paMulti(vm, COU << 4, COV): where
\* the streamed load starts reading.
PaMulti(bp, TEXCLUT) == bp + 64 * TEXCLUT.CBW + 16 * TEXCLUT.COU + 1024 * TEXCLUT.COV

\* The GSVector4i at s[i] of a source of 16-bit lanes starting at address a.
SrcVec(img, a, i) == [l \in 1..8 |-> Mem16(img, a, 8 * i + l - 1)]

----------------------------------------------------------------------------
(* GSVector4i lane shuffles (each vector is its eight 16-bit lanes).       *)

\* _mm_unpacklo_epi16 / _mm_unpackhi_epi16
Upl16(a, b) == <<a[1], b[1], a[2], b[2], a[3], b[3], a[4], b[4]>>
Uph16(a, b) == <<a[5], b[5], a[6], b[6], a[7], b[7], a[8], b[8]>>
\* _mm_unpacklo_epi32 / _mm_unpackhi_epi32
Upl32(a, b) == <<a[1], a[2], b[1], b[2], a[3], a[4], b[3], b[4]>>
Uph32(a, b) == <<a[5], a[6], b[5], b[6], a[7], a[8], b[7], b[8]>>

\* GSVector4i::sw16(a, b, c, d) and sw32(a, b, c, d) on v = <<a, b, c, d>>:
\* e = a, f = c; a = e.upl(b); c = e.uph(b); b = f.upl(d); d = f.uph(d).
\* The value is the new <<a, b, c, d>>.
Sw16(v) == <<Upl16(v[1], v[2]), Upl16(v[3], v[4]), Uph16(v[1], v[2]), Uph16(v[3], v[4])>>
Sw32(v) == <<Upl32(v[1], v[2]), Upl32(v[3], v[4]), Uph32(v[1], v[2]), Uph32(v[3], v[4])>>
\* <<a, b, c, d>> with the middle two exchanged: the order of the arguments
\* of a call sw16(v0, v2, v1, v3).
Mid(v) == <<v[1], v[3], v[2], v[4]>>

----------------------------------------------------------------------------
(* Reordering tables of the table loads.                                   *)

\* clutTableT32I8[16 * k] for k in 0..7: the source column of group k.
ClutTableT32I8(i) ==
    CASE i = 0 -> 0 [] i = 16 -> 64 [] i = 32 -> 16 [] i = 48 -> 80
      [] i = 64 -> 32 [] i = 80 -> 96 [] i = 96 -> 48 [] i = 112 -> 112

\* clutTableT16I4[i] for i in 0..15.
ClutTableT16I4(i) == <<0, 2, 8, 10, 16, 18, 24, 26, 4, 6, 12, 14, 20, 22, 28, 30>>[i + 1]

----------------------------------------------------------------------------
(* The load routines.  The buffers are kept as the code addresses them     *)
(* through GSVector4i pointers: buffer[v] is the vector at d[v], its lanes *)
(* the entries 8v .. 8v + 7 of a 16-bit buffer.  Each routine yields the   *)
(* stores it makes, as a function from the indices of the vectors of       *)
(* m_clut it writes to the vectors written.  Every routine writes whole    *)
(* vectors: its base is a multiple of 16 entries and it writes 16 or 256   *)
(* consecutive entries.                                                    *)

NoStores == [i \in {} |-> <<>>]
ZeroVec == <<0, 0, 0, 0, 0, 0, 0, 0>>

\* A buffer is the function from the indices of the vectors stored into it
\* so far to their values; the pages vmalloc returns are zero, so a vector
\* never stored reads as zero.
Vec(buf, v) == IF v \in DOMAIN buf THEN buf[v] ELSE ZeroVec

\* The four vectors s[i], s[i + 1], s[i + 2], s[i + 3] of a source.
Src4(img, a, i) ==
    <<SrcVec(img, a, i), SrcVec(img, a, i + 1), SrcVec(img, a, i + 2), SrcVec(img, a, i + 3)>>

\* The first of the three swaps alone.
FirstSwapOnly(v) == Sw16(v)

\* The three swaps every table load applies to v = <<v0, v1, v2, v3>>:
\* sw16(v0, v1, v2, v3); sw32(v0, v1, v2, v3); sw16(v0, v2, v1, v3).
\* The value is the final <<v0, v1, v2, v3>>.
Swizzle(v) == Mid(Sw16(Mid(Sw32(Sw16(v)))))

\* d[0] = v0; d[1] = v2; d[32] = v1; d[33] = v3, d the vector dv of m_clut.
T32I4Stores(dv, v) ==
    (dv :> v[1]) @@ ((dv + 1) :> v[3]) @@ ((dv + 32) :> v[2]) @@ ((dv + 33) :> v[4])

\* WriteCLUT_T32_I4_CSM1(src, clut), the SSE path (one block): src is the
\* four vectors at s[sv ..] of the source at address a, clut is the vector
\* d[dv] of m_clut.
WriteCLUT_T32_I4_CSM1(img, a, sv, dv) == T32I4Stores(dv, Swizzle(Src4(img, a, sv)))

\* WriteCLUT_T32_I8_CSM1(src, clut, offset): groups offset..15, each loaded
\* from source column s = clutTableT32I8[off & 0x70] | (off & 0x80), a
\* count of 32-bit words (four to a vector), to &clut[off].
RECURSIVE T32I8Groups(_, _, _)
T32I8Groups(img, a, i) ==
    IF i >= 16 THEN NoStores
    ELSE LET off == 16 * i
             sc == ClutTableT32I8(off % 128) + 128 * ((off \div 128) % 2)
         IN  WriteCLUT_T32_I4_CSM1(img, a, sc \div 4, off \div 8) @@ T32I8Groups(img, a, i + 1)

\* A table load that stores every group whatever the offset.
LoadsEveryGroup(img, a, offset) == T32I8Groups(img, a, 0)

WriteCLUT_T32_I8_CSM1(img, a, offset) == T32I8Groups(img, a, offset)

\* d[i + 0] = v0; d[i + 1] = v2; d[i + 2] = v1; d[i + 3] = v3, d[i] the
\* vector dv of m_clut.
T16I8Stores(dv, v) ==
    (dv :> v[1]) @@ ((dv + 1) :> v[3]) @@ ((dv + 2) :> v[2]) @@ ((dv + 3) :> v[4])

\* WriteCLUT_T16_I8_CSM1(src, clut) (two blocks): 32 vectors, four at a
\* time.
RECURSIVE T16I8Quads(_, _, _, _)
T16I8Quads(img, a, dv, i) ==
    IF i >= 32 THEN NoStores
    ELSE T16I8Stores(dv + i, Swizzle(Src4(img, a, i))) @@ T16I8Quads(img, a, dv, i + 4)

WriteCLUT_T16_I8_CSM1(img, a, dv) == T16I8Quads(img, a, dv, 0)

\* WriteCLUT_T16_I4_CSM1(src, clut) (half a block):
\* clut[i] = src[clutTableT16I4[i]] for i < 16.
WriteCLUT_T16_I4_CSM1(img, a, dv) ==
    (dv :> [l \in 1..8 |-> Mem16(img, a, ClutTableT16I4(l - 1))])
        @@ ((dv + 1) :> [l \in 1..8 |-> Mem16(img, a, ClutTableT16I4(l + 7))])

\* A streamed load that stores the low halves alone.
Csm2LowOnly(img, a, dv, n) ==
    [v \in dv..(dv + (n \div 8) - 1) |-> [l \in 1..8 |-> Mem16(img, a, 2 * (8 * (v - dv) + l - 1))]]

\* WriteCLUT32_CSM2<n>: clut[i] = low half, clut[i + 256] = high half of the
\* i-th word fetched, for i < n.
WriteCLUT32_CSM2(img, a, dv, n) ==
    [v \in (dv..(dv + (n \div 8) - 1)) \cup ((dv + 32)..(dv + 32 + (n \div 8) - 1)) |->
        [l \in 1..8 |->
            IF v < dv + 32 THEN Mem16(img, a, 2 * (8 * (v - dv) + l - 1))
            ELSE Mem16(img, a, 2 * (8 * (v - dv - 32) + l - 1) + 1)]]

\* WriteCLUT16_CSM2<n> and WriteCLUT16S_CSM2<n>: clut[i] = the i-th value
\* fetched, for i < n.
WriteCLUT16_CSM2(img, a, dv, n) ==
    [v \in dv..(dv + (n \div 8) - 1) |-> [l \in 1..8 |-> Mem16(img, a, 8 * (v - dv) + l - 1)]]

----------------------------------------------------------------------------
(* The dispatch table m_wc[CSM][CPSM][PSM] the constructor builds.         *)

\* A table with no routine wired.
WcAllNull(csm, cpsm, psm) == "WriteCLUT_NULL"

Wc(csm, cpsm, psm) ==
    IF csm = 0 THEN
        LET eight_bit == Low3(psm) = 3
            four_bit == Low3(psm) = 4
        IN  IF cpsm \in {PSM_PSMCT32, PSM_PSMCT24} THEN
                (IF eight_bit THEN "WriteCLUT32_I8_CSM1"
                 ELSE IF four_bit THEN "WriteCLUT32_I4_CSM1" ELSE "WriteCLUT_NULL")
            ELSE IF cpsm = PSM_PSMCT16 THEN
                (IF eight_bit THEN "WriteCLUT16_I8_CSM1"
                 ELSE IF four_bit THEN "WriteCLUT16_I4_CSM1" ELSE "WriteCLUT_NULL")
            ELSE IF cpsm = PSM_PSMCT16S THEN
                (IF eight_bit THEN "WriteCLUT16S_I8_CSM1"
                 ELSE IF four_bit THEN "WriteCLUT16S_I4_CSM1" ELSE "WriteCLUT_NULL")
            ELSE "WriteCLUT_NULL"
    ELSE
        IF cpsm \in {PSM_PSMCT32, PSM_PSMCT24} /\ psm \in Pal256PSM THEN "WriteCLUT32_CSM2_256"
        ELSE IF cpsm \in {PSM_PSMCT32, PSM_PSMCT24} /\ psm \in Pal16PSM THEN "WriteCLUT32_CSM2_16"
        ELSE IF cpsm = PSM_PSMCT16 /\ psm \in Pal256PSM THEN "WriteCLUT16_CSM2_256"
        ELSE IF cpsm = PSM_PSMCT16 /\ psm \in Pal16PSM THEN "WriteCLUT16_CSM2_16"
        ELSE IF cpsm = PSM_PSMCT16S /\ psm \in Pal256PSM THEN "WriteCLUT16S_CSM2_256"
        ELSE IF cpsm = PSM_PSMCT16S /\ psm \in Pal16PSM THEN "WriteCLUT16S_CSM2_16"
        ELSE "WriteCLUT_NULL"

\* The stores of routine r called with (TEX0, TEXCLUT) against the memory
\* image img.
RoutineStores(r, TEX0, TEXCLUT, img) ==
    LET \* m_clut + ((CSA & 15) << 4) and m_clut + (CSA << 4), in vectors
        b32 == 2 * Low4(TEX0.CSA)
        b16 == 2 * TEX0.CSA
    IN  CASE r = "WriteCLUT32_I8_CSM1" ->
                WriteCLUT_T32_I8_CSM1(img, BlockPtr(TEX0.CBP), Low4(TEX0.CSA))
          [] r = "WriteCLUT32_I4_CSM1" ->
                WriteCLUT_T32_I4_CSM1(img, BlockPtr(TEX0.CBP), 0, b32)
          [] r = "WriteCLUT16_I8_CSM1" ->
                WriteCLUT_T16_I8_CSM1(img, BlockPtr(TEX0.CBP), b16)
          [] r = "WriteCLUT16_I4_CSM1" ->
                WriteCLUT_T16_I4_CSM1(img, BlockPtr(TEX0.CBP), b16)
          [] r = "WriteCLUT16S_I8_CSM1" ->
                WriteCLUT_T16_I8_CSM1(img, BlockPtr16S(TEX0.CBP), b16)
          [] r = "WriteCLUT16S_I4_CSM1" ->
                WriteCLUT_T16_I4_CSM1(img, BlockPtr16S(TEX0.CBP), b16)
          [] r = "WriteCLUT32_CSM2_256" ->
                WriteCLUT32_CSM2(img, PaMulti(TEX0.CBP, TEXCLUT), b32, 256)
          [] r = "WriteCLUT32_CSM2_16" ->
                WriteCLUT32_CSM2(img, PaMulti(TEX0.CBP, TEXCLUT), b32, 16)
          [] r = "WriteCLUT16_CSM2_256" ->
                WriteCLUT16_CSM2(img, PaMulti(TEX0.CBP, TEXCLUT), b16, 256)
          [] r = "WriteCLUT16_CSM2_16" ->
                WriteCLUT16_CSM2(img, PaMulti(TEX0.CBP, TEXCLUT), b16, 16)
          [] r = "WriteCLUT16S_CSM2_256" ->
                WriteCLUT16_CSM2(img, PaMulti(TEX0.CBP, TEXCLUT) + 16384, b16, 256)
          [] r = "WriteCLUT16S_CSM2_16" ->
                WriteCLUT16_CSM2(img, PaMulti(TEX0.CBP, TEXCLUT) + 16384, b16, 16)
          [] OTHER -> NoStores

\* (this->*m_wc[TEX0.CSM][TEX0.CPSM][TEX0.PSM])(TEX0, TEXCLUT)
LoadStores(TEX0, TEXCLUT, img) ==
    RoutineStores(Wc(TEX0.CSM, TEX0.CPSM, TEX0.PSM), TEX0, TEXCLUT, img)

----------------------------------------------------------------------------
(* The expansion routines.  m_buff32[v] is the vector d[v] of the expanded *)
(* buffer: the four 32-bit entries 4v .. 4v + 3, entry 4v + k in lanes     *)
(* 2k + 1 (low half) and 2k + 2 (high half).  m_buff64[v] holds the two    *)
(* 64-bit entries 2v and 2v + 1.  Each routine yields the stores it makes. *)

\* d[0] = v0; d[1] = v1; d[2] = v2; d[3] = v3, d the vector dv of dst.
Stores4(dv, v) == (dv :> v[1]) @@ ((dv + 1) :> v[2]) @@ ((dv + 2) :> v[3]) @@ ((dv + 3) :> v[4])

\* ReadCLUT_T32_I4(clut, dst): v0 = s[0], v1 = s[1], v2 = s[32], v3 = s[33];
\* sw16(v0, v2, v1, v3); d[0..3] = v0, v1, v2, v3.  sv and dv are the
\* vectors clut and dst point at.
ReadCLUT_T32_I4(clut, sv, dv) ==
    Stores4(dv, Mid(Sw16(<<Vec(clut, sv), Vec(clut, sv + 32), Vec(clut, sv + 1), Vec(clut, sv + 33)>>)))

\* ReadCLUT_T32_I8(clut, dst, offset): sixteen groups, the entry each
\* starts at clamped to 240: &clut[std::min(i + offset, 240)], &dst[i].
RECURSIVE T32I8Read(_, _, _)
T32I8Read(clut, offset, i) ==
    IF i >= 256 THEN NoStores
    ELSE ReadCLUT_T32_I4(clut, Min(i + offset, 240) \div 8, i \div 4)
            @@ T32I8Read(clut, offset, i + 16)

ReadCLUT_T32_I8(clut, offset) == T32I8Read(clut, offset, 0)

\* A lane expansion that takes no account of AEM.
Expand16LaneNoAem(c, TEXA) ==
    <<8 * (c % 32) + 2048 * ((c \div 32) % 32),
      8 * ((c \div 1024) % 32) + 256 * (IF c \div 32768 = 1 THEN TEXA.TA1 ELSE TEXA.TA0)>>

\* One lane of Expand16: the 32-bit colour <<low, high>> of the 16-bit
\* value c: ((c & rm) << 3) | ((c & gm) << 6) | ((c & bm) << 9) | alpha << 24
\* where alpha = TA0.blend8(TA1, c.sra16(15)), with AEM .andnot(c == 0).
Expand16Lane(c, TEXA) ==
    LET r == c % 32
        g == (c \div 32) % 32
        b == (c \div 1024) % 32
        a == IF c \div 32768 = 1 THEN TEXA.TA1 ELSE TEXA.TA0
        alpha == IF TEXA.AEM = 1 /\ c = 0 THEN 0 ELSE a
    IN  <<8 * r + 2048 * g, 8 * b + 256 * alpha>>

\* The four colours expanded from lanes h + 1 .. h + 4 of the vector c.
Join4(e1, e2, e3, e4) == <<e1[1], e1[2], e2[1], e2[2], e3[1], e3[2], e4[1], e4[2]>>
Expand16Half(c, h, TEXA) ==
    Join4(Expand16Lane(c[h + 1], TEXA), Expand16Lane(c[h + 2], TEXA),
          Expand16Lane(c[h + 3], TEXA), Expand16Lane(c[h + 4], TEXA))

\* Expand16(src, dst, w, TEXA): for i < w / 8, d[2i] from the low four and
\* d[2i + 1] from the high four lanes of s[i].
Expand16(clut, sv, w, TEXA) ==
    [v \in 0..((w \div 4) - 1) |-> Expand16Half(Vec(clut, sv + (v \div 2)), 4 * (v % 2), TEXA)]

\* hi.xxxx(), hi.yyyy(), hi.zzzz(), hi.wwww(): the 32-bit entry k of a
\* vector in all four places.
Splat32(v, k) == [l \in 1..8 |-> v[2 * k + 1 + ((l - 1) % 2)]]

\* ExpandCLUT64_T32_I8(src, dst): for each vector s[h] of src[0..15] and each
\* of its entries k, the four low vectors s[q] paired with that entry:
\* dst[32h + 8k + 2q] = lo.upl32(hi), dst[32h + 8k + 2q + 1] = lo.uph32(hi).
ExpandCLUT64_T32_I8(b32) ==
    [v \in 0..127 |->
        LET h == v \div 32
            k == (v % 32) \div 8
            q == (v % 8) \div 2
            hi == Splat32(Vec(b32, h), k)
        IN  IF v % 2 = 0 THEN Upl32(Vec(b32, q), hi) ELSE Uph32(Vec(b32, q), hi)]

\* The (CPSM, PSM) cases of Read32's two switches.
ReadCase(TEX0) ==
    IF TEX0.CPSM \in {PSM_PSMCT32, PSM_PSMCT24} THEN
        (IF TEX0.PSM \in Pal256PSM THEN "T32_I8"
         ELSE IF TEX0.PSM \in Pal16PSM THEN "T32_I4" ELSE "none")
    ELSE IF TEX0.CPSM \in {PSM_PSMCT16, PSM_PSMCT16S} THEN
        (IF TEX0.PSM \in Pal256PSM THEN "T16_I8"
         ELSE IF TEX0.PSM \in Pal16PSM THEN "T16_I4" ELSE "none")
    ELSE "none"

\* The stores into m_buff32 of the expansion Read32 runs for TEX0, TEXA.
ExpandStores(clut, TEX0, TEXA) ==
    LET c == ReadCase(TEX0)
    IN  CASE c = "T32_I8" -> ReadCLUT_T32_I8(clut, 16 * Low4(TEX0.CSA))
          [] c = "T32_I4" -> ReadCLUT_T32_I4(clut, 2 * Low4(TEX0.CSA), 0)
          [] c = "T16_I8" -> Expand16(clut, 2 * TEX0.CSA, 256, TEXA)
          [] c = "T16_I4" -> Expand16(clut, 2 * TEX0.CSA, 16, TEXA)
          [] OTHER -> NoStores

\* The vectors of m_clut the expansion for TEX0 reads.
ExpandReads(TEX0) ==
    LET c == ReadCase(TEX0)
        grp(v) == {v, v + 1, v + 32, v + 33}
    IN  CASE c = "T32_I8" ->
                UNION {grp(Min(16 * g + 16 * Low4(TEX0.CSA), 240) \div 8) : g \in 0..15}
          [] c = "T32_I4" -> grp(2 * Low4(TEX0.CSA))
          [] c = "T16_I8" -> (2 * TEX0.CSA)..(2 * TEX0.CSA + 31)
          [] c = "T16_I4" -> (2 * TEX0.CSA)..(2 * TEX0.CSA + 1)
          [] OTHER -> {}

\* A buffer with stores applied, and whether they change what it holds.
Apply(buf, st) == st @@ buf
Changes(buf, st) == \E v \in DOMAIN st : st[v] # Vec(buf, v)
Holds(buf, st) == \A v \in DOMAIN st : Vec(buf, v) = st[v]

\* Entry i of a 16-bit buffer, and 32-bit entry j of an expanded buffer.
Entry16(buf, i) == Vec(buf, i \div 8)[(i % 8) + 1]
Entry32(buf, j) == <<Vec(buf, j \div 4)[2 * (j % 4) + 1], Vec(buf, j \div 4)[2 * (j % 4) + 2]>>

----------------------------------------------------------------------------
(* The dirty checks.                                                       *)

\* The TEX0 bits under the mask 0x1FFFFFE000000000: CSA CSM CPSM CBP.
Tex0Masked(TEX0) == <<TEX0.CSA, TEX0.CSM, TEX0.CPSM, TEX0.CBP>>
\* TEXCLUT.U32[0]: CBW, COU, COV.
TexclutU32(TEXCLUT) == <<TEXCLUT.CBW, TEXCLUT.COU, TEXCLUT.COV>>
\* The TEXA bits under texa24_mask 0x80FF: AEM TA0.
Texa24Masked(TEXA) == <<TEXA.AEM, TEXA.TA0>>
\* The TEXA bits under texa16_mask 0xFF000080FF: TA1 AEM TA0.
Texa16Masked(TEXA) == <<TEXA.TA1, TEXA.AEM, TEXA.TA0>>

\* A dirty check that always asks for the reload.
AlwaysDirty(w, TEX0, TEXCLUT) == TRUE

\* A dirty check that looks at the dirty flag alone.
DirtyFlagOnly(w, TEX0, TEXCLUT) == w.dirty

\* A dirty check that compares the registers and ignores the dirty flag.
RegistersOnly(w, TEX0, TEXCLUT) ==
    \/ Tex0Masked(w.TEX0) # Tex0Masked(TEX0)
    \/ PsmBpp(w.TEX0.PSM) # PsmBpp(TEX0.PSM)
    \/ (TEX0.CSM = 1 /\ TexclutU32(TEXCLUT) # TexclutU32(w.TEXCLUT))

\* A dirty check that never stores the registers.
WriteStateKept(w, TEX0, TEXCLUT) == w

\* GSClut::WriteState::IsDirty: the value returned (the state it leaves is
\* WriteStateAfter).
WriteIsDirty(w, TEX0, TEXCLUT) ==
    \/ w.dirty
    \/ Tex0Masked(w.TEX0) # Tex0Masked(TEX0)
    \/ PsmBpp(w.TEX0.PSM) # PsmBpp(TEX0.PSM)
    \/ (TEX0.CSM = 1 /\ TexclutU32(TEXCLUT) # TexclutU32(w.TEXCLUT))

\* if (!is_dirty) { this->TEX0.U64 = TEX0.U64; this->TEXCLUT.U64 = TEXCLUT.U64; }
WriteStateAfter(w, TEX0, TEXCLUT) ==
    IF WriteIsDirty(w, TEX0, TEXCLUT) THEN w
    ELSE [w EXCEPT !.TEX0 = TEX0, !.TEXCLUT = TEXCLUT]

\* A read-side dirty check that never looks at TEXA.
ReadDirtyNoTexa(r, TEX0, TEXA) ==
    \/ r.dirty
    \/ Tex0Masked(r.TEX0) # Tex0Masked(TEX0)
    \/ PsmBpp(r.TEX0.PSM) # PsmBpp(TEX0.PSM)

\* GSClut::ReadState::IsDirty(TEX0, TEXA): the value returned.
ReadIsDirty(r, TEX0, TEXA) ==
    \/ r.dirty
    \/ Tex0Masked(r.TEX0) # Tex0Masked(TEX0)
    \/ PsmBpp(r.TEX0.PSM) # PsmBpp(TEX0.PSM)
    \/ (TEX0.CPSM = PSM_PSMCT24 /\ Texa24Masked(r.TEXA) # Texa24Masked(TEXA))
    \/ (TEX0.CPSM >= PSM_PSMCT16 /\ Texa16Masked(r.TEXA) # Texa16Masked(TEXA))

\* if (!is_dirty) { this->TEX0.U64 = TEX0.U64; this->TEXA.U64 = TEXA.U64; }
ReadStateAfter(r, TEX0, TEXA) ==
    IF ReadIsDirty(r, TEX0, TEXA) THEN r
    ELSE [r EXCEPT !.TEX0 = TEX0, !.TEXA = TEXA]

----------------------------------------------------------------------------
(* The state of a GSClut.                                                  *)

VARIABLES
    m_clut,     \* the palette buffer: entry index -> 16-bit value
    m_buff32,   \* the expanded buffer: entry index -> <<low, high>>
    m_buff64,   \* the duplicate buffer: entry index -> <<32-bit, 32-bit>>
    m_write,    \* [TEX0, TEXCLUT, dirty]
    m_read,     \* [TEX0, TEXA, dirty, adirty, amin, amax]
    m_CBP,      \* the two base-pointer slots, m_CBP[0] and m_CBP[1]
    call,       \* the last call: its name, arguments, result and accesses
    hist        \* what the calls so far amount to (see HistInit)

vars == <<m_clut, m_buff32, m_buff64, m_write, m_read, m_CBP, call, hist>>

Tex0(psm, cbp, cpsm, csm, csa, cld) ==
    [PSM |-> psm, CBP |-> cbp, CPSM |-> cpsm, CSM |-> csm, CSA |-> csa, CLD |-> cld]
Texclut(cbw, cou, cov) == [CBW |-> cbw, COU |-> cou, COV |-> cov]
Texa(ta0, aem, ta1) == [TA0 |-> ta0, AEM |-> aem, TA1 |-> ta1]

NoTex0 == Tex0(0, 0, 0, 0, 0, 0)
NoTexclut == Texclut(0, 0, 0)
NoTexa == Texa(0, 0, 0)
\* The first and last entry of a set V of vectors of n entries each (-1
\* when there is none).
FirstEntry(V, n) == IF V = {} THEN -1 ELSE n * SetMin(V)
LastEntry(V, n) == IF V = {} THEN -1 ELSE n * SetMax(V) + n - 1

\* The record of a call: its name and arguments (start, end: the block
\* arguments of an invalidation) and
\*   ret      the value WriteTest returned; for Read32 the value of
\*            m_read.IsDirty, that is whether it took the expansion branch;
\*            for GetAlphaMinMax32 whether the alpha range was stale;
\*   routine  the load routine Write dispatched to / the case Read32 ran;
\*   changed  whether any palette entry changed;
\*   first    no WriteTest or Write (for Read32: no Read32) came before;
\*   repeat   for a WriteTest with the arguments of the WriteTest before it,
\*            the calls between the two keeping the protocol (see hist):
\*            "after_false" or "after_write", else "no"; for a Read32 with
\*            the arguments of the Read32 before it and no Write between
\*            the two: "after_read", else "no";
\*   afterLoad  for Read32: no Read32 came since the last Write (or since
\*            construction);
\*   stored   for WriteTest: the write-side snapshot changed;
\*   failed   the assertion that failed in the call: "dirty", "pal", or
\*            "none";
\*   amin, amax  the values GetAlphaMinMax32 gave back;
\*   clutMin .. b64Max  the least and greatest index of each buffer the
\*            call read or wrote (-1 when none).
NoCall(op) ==
    [op |-> op, TEX0 |-> NoTex0, TEXCLUT |-> NoTexclut, TEXA |-> NoTexa,
     start |-> 0, end |-> 0, ret |-> FALSE, routine |-> "none",
     changed |-> FALSE, first |-> FALSE, repeat |-> "no",
     afterLoad |-> FALSE, stored |-> FALSE, failed |-> "none", amin |-> 0, amax |-> 0,
     clutMin |-> -1, clutMax |-> -1, b32Min |-> -1, b32Max |-> -1,
     b64Min |-> -1, b64Max |-> -1]

\* What the history of calls amounts to:
\*   wt       the arguments of the last WriteTest and how the calls since
\*            then keep the caller's protocol: "after_false" (it returned
\*            false), "pending" (it returned true and Write is due),
\*            "after_write" (it returned true and Write followed with its
\*            arguments), "broken" (another Write or an invalidation
\*            came), "none" (there was no WriteTest);
\*   loaded   a Write or WriteTest call has been made;
\*   read     a Read32 call has been made;
\*   rd       the arguments of the last Read32 when no Write came since
\*            ("after_read"), else "none";
\*   unexpanded  a load changed the palette and no expansion has run since.
HistInit ==
    [wtTEX0 |-> NoTex0, wtTEXCLUT |-> NoTexclut, wt |-> "none",
     loaded |-> FALSE, read |-> FALSE, unexpanded |-> FALSE,
     rd |-> "none", rdTEX0 |-> NoTex0, rdTEXA |-> NoTexa]

\* The history once a call departs from the protocol.
Broken(h) ==
    IF h.wt = "none" THEN h
    ELSE [h EXCEPT !.wtTEX0 = NoTex0, !.wtTEXCLUT = NoTexclut, !.wt = "broken"]

\* A constructor that leaves the two dirty flags clear.
ConstructClean(w0, c0, r0, t0, cbp0, a0) ==
    /\ m_clut = NoStores
    /\ m_buff32 = NoStores
    /\ m_buff64 = NoStores
    /\ m_write = [TEX0 |-> w0, TEXCLUT |-> c0, dirty |-> FALSE]
    /\ m_read = [TEX0 |-> r0, TEXA |-> t0, dirty |-> FALSE,
                 adirty |-> a0, amin |-> 0, amax |-> 0]
    /\ m_CBP = cbp0
    /\ call = NoCall("GSClut")
    /\ hist = HistInit

\* The state the constructor leaves.  It sets the two dirty flags and
\* nothing else: the snapshots, the slots and the alpha cache hold whatever
\* the memory held (w0, r0, cbp0, a0), the buffers are fresh pages.
Construct(w0, c0, r0, t0, cbp0, a0) ==
    /\ m_clut = NoStores
    /\ m_buff32 = NoStores
    /\ m_buff64 = NoStores
    /\ m_write = [TEX0 |-> w0, TEXCLUT |-> c0, dirty |-> TRUE]
    /\ m_read = [TEX0 |-> r0, TEXA |-> t0, dirty |-> TRUE,
                 adirty |-> a0, amin |-> 0, amax |-> 0]
    /\ m_CBP = cbp0
    /\ call = NoCall("GSClut")
    /\ hist = HistInit

----------------------------------------------------------------------------
(* The operations.                                                         *)

\* An invalidation that sets the dirty flag of the read side too.
InvalidateBothSides ==
    /\ m_write' = [m_write EXCEPT !.dirty = TRUE]
    /\ m_read' = [m_read EXCEPT !.dirty = TRUE]
    /\ call' = NoCall("Invalidate")
    /\ hist' = Broken(hist)
    /\ UNCHANGED <<m_clut, m_buff32, m_buff64, m_CBP>>

\* void GSClut::Invalidate()
Invalidate ==
    /\ m_write' = [m_write EXCEPT !.dirty = TRUE]
    /\ call' = NoCall("Invalidate")
    /\ hist' = Broken(hist)
    /\ UNCHANGED <<m_clut, m_buff32, m_buff64, m_read, m_CBP>>

\* int blocks = 4, halved for a 16-bit CPSM and for a 4-bit PSM.
InvalidateBlocks(TEX0) ==
    LET b1 == IF PsmBpp(TEX0.CPSM) = 16 THEN 4 \div 2 ELSE 4
    IN  IF PsmBpp(TEX0.PSM) = 4 THEN b1 \div 2 ELSE b1

\* The test of InvalidateRange.
InvalidateRangeHits(TEX0, start_block, end_block) ==
    /\ TEX0.CBP + InvalidateBlocks(TEX0) >= start_block
    /\ TEX0.CBP <= end_block

\* void GSClut::InvalidateRange(u32 start_block, u32 end_block)
InvalidateRange(start_block, end_block) ==
    /\ m_write' = IF InvalidateRangeHits(m_write.TEX0, start_block, end_block)
                  THEN [m_write EXCEPT !.dirty = TRUE] ELSE m_write
    /\ call' = [NoCall("InvalidateRange") EXCEPT !.start = start_block, !.end = end_block]
    /\ hist' = Broken(hist)
    /\ UNCHANGED <<m_clut, m_buff32, m_buff64, m_read, m_CBP>>

\* A test that hits the block of the base pointer alone.
SameBlock(block, cbp) == block = cbp

\* !((block ^ CBP) & ~0x1F): block and CBP agree above their low 5 bits.
SamePage(block, cbp) == block \div 32 = cbp \div 32

\* void GSClut::Invalidate(u32 block)
InvalidateBlock(block) ==
    /\ m_write' = IF SamePage(block, m_write.TEX0.CBP)
                  THEN [m_write EXCEPT !.dirty = TRUE] ELSE m_write
    /\ call' = [NoCall("InvalidateBlock") EXCEPT !.start = block]
    /\ hist' = Broken(hist)
    /\ UNCHANGED <<m_clut, m_buff32, m_buff64, m_read, m_CBP>>

\* A switch that sends every load mode to the dirty check.
SwitchAlwaysChecks(cbp, TEX0) == [go |-> "check", CBP |-> cbp]

\* A switch whose modes 4 and 5 store the base pointer without comparing.
SwitchAlwaysStores(cbp, TEX0) ==
    IF TEX0.CLD \in {2, 4} THEN [go |-> "check", CBP |-> [cbp EXCEPT ![0] = TEX0.CBP]]
    ELSE IF TEX0.CLD \in {3, 5} THEN [go |-> "check", CBP |-> [cbp EXCEPT ![1] = TEX0.CBP]]
    ELSE [go |-> IF TEX0.CLD = 1 THEN "check" ELSE "false", CBP |-> cbp]

\* A switch that stores the base pointer in slot 0 under every load mode.
SwitchStoresSlotA(cbp, TEX0) == [go |-> "check", CBP |-> [cbp EXCEPT ![0] = TEX0.CBP]]

\* The switch of WriteTest on TEX0.CLD for an indexed format: "false" where
\* it returns false, else "check" with the slots as the case leaves them.
WriteTestSwitch(cbp, TEX0) ==
    CASE TEX0.CLD = 0 -> [go |-> "false", CBP |-> cbp]
      [] TEX0.CLD = 1 -> [go |-> "check", CBP |-> cbp]
      [] TEX0.CLD = 2 -> [go |-> "check", CBP |-> [cbp EXCEPT ![0] = TEX0.CBP]]
      [] TEX0.CLD = 3 -> [go |-> "check", CBP |-> [cbp EXCEPT ![1] = TEX0.CBP]]
      [] TEX0.CLD = 4 -> IF cbp[0] = TEX0.CBP THEN [go |-> "false", CBP |-> cbp]
                         ELSE [go |-> "check", CBP |-> [cbp EXCEPT ![0] = TEX0.CBP]]
      [] TEX0.CLD = 5 -> IF cbp[1] = TEX0.CBP THEN [go |-> "false", CBP |-> cbp]
                         ELSE [go |-> "check", CBP |-> [cbp EXCEPT ![1] = TEX0.CBP]]
      [] TEX0.CLD = 6 -> [go |-> "false", CBP |-> cbp]
      [] TEX0.CLD = 7 -> [go |-> "false", CBP |-> cbp]

\* Whether WriteTest gets to m_write.IsDirty: the format is indexed and the
\* case of the switch does not return.
ReachesDirtyCheck(cbp, TEX0) ==
    Low3(TEX0.PSM) >= 3 /\ WriteTestSwitch(cbp, TEX0).go = "check"

\* A WriteTest that stores the base pointer of any format in slot 0.
OutcomeAnyFormat(w, cbp, TEX0, TEXCLUT) ==
    [ret |-> FALSE, CBP |-> [cbp EXCEPT ![0] = TEX0.CBP], write |-> w]

\* The outcome of WriteTest: the value returned, the slots and the
\* write-side state it leaves.
WriteTestOutcome(w, cbp, TEX0, TEXCLUT) ==
    IF Low3(TEX0.PSM) < 3 THEN [ret |-> FALSE, CBP |-> cbp, write |-> w]
    ELSE LET sw == WriteTestSwitch(cbp, TEX0)
         IN  IF sw.go = "false" THEN [ret |-> FALSE, CBP |-> sw.CBP, write |-> w]
             ELSE [ret |-> WriteIsDirty(w, TEX0, TEXCLUT), CBP |-> sw.CBP,
                   write |-> WriteStateAfter(w, TEX0, TEXCLUT)]

\* bool GSClut::WriteTest(const GIFRegTEX0& TEX0, const GIFRegTEXCLUT& TEXCLUT)
WriteTest(TEX0, TEXCLUT) ==
    LET o == WriteTestOutcome(m_write, m_CBP, TEX0, TEXCLUT)
    IN  /\ m_write' = o.write
        /\ m_CBP' = o.CBP
        /\ call' = [NoCall("WriteTest") EXCEPT
                        !.TEX0 = TEX0, !.TEXCLUT = TEXCLUT, !.ret = o.ret,
                        !.first = ~hist.loaded, !.stored = (o.write # m_write),
                        !.repeat = IF /\ hist.wt \in {"after_false", "after_write"}
                                      /\ hist.wtTEX0 = TEX0
                                      /\ hist.wtTEXCLUT = TEXCLUT
                                   THEN hist.wt ELSE "no"]
        /\ hist' = [hist EXCEPT !.wtTEX0 = TEX0, !.wtTEXCLUT = TEXCLUT,
                                !.wt = IF o.ret THEN "pending" ELSE "after_false",
                                !.loaded = TRUE]
        /\ UNCHANGED <<m_clut, m_buff32, m_buff64, m_read>>

\* The routine Write calls, once its stores st into m_clut are known.
WriteStores(TEX0, TEXCLUT, st) ==
    /\ m_clut' = Apply(m_clut, st)
    /\ call' = [NoCall("Write") EXCEPT
                    !.TEX0 = TEX0, !.TEXCLUT = TEXCLUT,
                    !.routine = Wc(TEX0.CSM, TEX0.CPSM, TEX0.PSM),
                    !.changed = Changes(m_clut, st), !.first = ~hist.loaded,
                    !.clutMin = FirstEntry(DOMAIN st, 8),
                    !.clutMax = LastEntry(DOMAIN st, 8)]
    /\ hist' = [(IF hist.wt = "pending" /\ hist.wtTEX0 = TEX0
                        /\ hist.wtTEXCLUT = TEXCLUT
                  THEN [hist EXCEPT !.wt = "after_write"] ELSE Broken(hist)) EXCEPT
                    !.loaded = TRUE,
                    !.unexpanded = @ \/ Changes(m_clut, st),
                    !.rd = "none", !.rdTEX0 = NoTex0, !.rdTEXA = NoTexa]

\* void GSClut::Write(const GIFRegTEX0& TEX0, const GIFRegTEXCLUT& TEXCLUT),
\* with the local memory holding image img.
Write(TEX0, TEXCLUT, img) ==
    /\ m_write' = [TEX0 |-> TEX0, TEXCLUT |-> TEXCLUT, dirty |-> FALSE]
    /\ m_read' = [m_read EXCEPT !.dirty = TRUE]
    /\ WriteStores(TEX0, TEXCLUT, LoadStores(TEX0, TEXCLUT, img))
    /\ UNCHANGED <<m_buff32, m_buff64, m_CBP>>

\* The stores into m_buff64 of the 4-bit cases of Read32, b32 the expanded
\* buffer they have just filled.
Dup64Stores(TEX0, b32) ==
    IF ReadCase(TEX0) \in {"T32_I4", "T16_I4"} THEN ExpandCLUT64_T32_I8(b32) ELSE NoStores

\* The branch of Read32 that m_read.IsDirty guards, once its stores st into
\* m_buff32 and b64 into m_buff64 are known.
Read32Stores(TEX0, TEXA, st, b64) ==
    /\ m_read' = [m_read EXCEPT !.TEX0 = TEX0, !.TEXA = TEXA,
                                !.dirty = FALSE, !.adirty = TRUE]
    /\ m_buff32' = Apply(m_buff32, st)
    /\ m_buff64' = Apply(m_buff64, b64)
    /\ call' = [NoCall("Read32") EXCEPT
                    !.TEX0 = TEX0, !.TEXA = TEXA, !.ret = TRUE,
                    !.routine = ReadCase(TEX0), !.first = ~hist.read,
                    !.afterLoad = (hist.rd = "none"),
                    !.repeat = IF hist.rd = "after_read" /\ hist.rdTEX0 = TEX0
                                    /\ hist.rdTEXA = TEXA
                               THEN "after_read" ELSE "no",
                    !.clutMin = FirstEntry(ExpandReads(TEX0), 8),
                    !.clutMax = LastEntry(ExpandReads(TEX0), 8),
                    !.b32Min = FirstEntry(DOMAIN st, 4),
                    !.b32Max = LastEntry(DOMAIN st, 4),
                    !.b64Min = FirstEntry(DOMAIN b64, 2),
                    !.b64Max = LastEntry(DOMAIN b64, 2)]
    /\ hist' = [hist EXCEPT !.read = TRUE,
                    !.unexpanded = @ /\ ReadCase(TEX0) = "none",
                    !.rd = "after_read", !.rdTEX0 = TEX0, !.rdTEXA = TEXA]
    /\ UNCHANGED <<m_clut, m_write, m_CBP>>

Read32Expand(TEX0, TEXA, st) ==
    Read32Stores(TEX0, TEXA, st, Dup64Stores(TEX0, Apply(m_buff32, st)))

\* void GSClut::Read32(const GIFRegTEX0& TEX0, const GIFRegTEXA& TEXA)
Read32(TEX0, TEXA) ==
    IF ReadIsDirty(m_read, TEX0, TEXA) THEN
        Read32Expand(TEX0, TEXA, ExpandStores(m_clut, TEX0, TEXA))
    ELSE
        /\ m_read' = ReadStateAfter(m_read, TEX0, TEXA)
        /\ call' = [NoCall("Read32") EXCEPT
                        !.TEX0 = TEX0, !.TEXA = TEXA, !.first = ~hist.read,
                        !.afterLoad = (hist.rd = "none"),
                        !.repeat = IF hist.rd = "after_read" /\ hist.rdTEX0 = TEX0
                                        /\ hist.rdTEXA = TEXA
                                   THEN "after_read" ELSE "no"]
        /\ hist' = [hist EXCEPT !.read = TRUE, !.rd = "after_read",
                                !.rdTEX0 = TEX0, !.rdTEXA = TEXA]
        /\ UNCHANGED <<m_clut, m_buff32, m_buff64, m_write, m_CBP>>

\* The alpha bytes (bits 24..31) of the four 32-bit entries of a vector:
\* what (p[i] >> 24) keeps.
VecAlphas(v) == {v[2] \div 256, v[4] \div 256, v[6] \div 256, v[8] \div 256}

\* The least and the greatest of a set of bytes: what the min_u8 / max_u8
\* reductions leave in extract16<0> and extract16<1>.
MinMax(S) == <<SetMin(S), SetMax(S)>>

\* The reduction of GetAlphaMinMax32 over the vectors p[0 .. nv - 1] of the
\* expanded buffer: 64 vectors when pal is 256, else p[0 .. 3].
AlphaReduce(b32, nv) == MinMax(UNION {VecAlphas(Vec(b32, v)) : v \in 0..(nv - 1)})

\* A range that always comes from the reduction over the buffer.
AlphaReduceOnly(r, b32) == AlphaReduce(b32, IF PsmPal(r.TEX0.PSM) = 256 THEN 64 ELSE 4)

\* The <<amin, amax>> GetAlphaMinMax32 computes when the range is stale.
AlphaRange(r, b32) ==
    IF PsmTrbpp(r.TEX0.CPSM) = 24 /\ r.TEXA.AEM = 0 THEN <<r.TEXA.TA0, r.TEXA.TA0>>
    ELSE AlphaReduce(b32, IF PsmPal(r.TEX0.PSM) = 256 THEN 64 ELSE 4)

\* The assertion of GetAlphaMinMax32 that fails in read-side state r:
\* ASSERT(!m_read.dirty), then, on the path of the reduction,
\* ASSERT(m_psm[m_read.TEX0.PSM].pal == 16) when pal is not 256.
AlphaFailed(r) ==
    IF r.dirty THEN "dirty"
    ELSE IF /\ r.adirty
            /\ ~(PsmTrbpp(r.TEX0.CPSM) = 24 /\ r.TEXA.AEM = 0)
            /\ PsmPal(r.TEX0.PSM) \notin {256, 16}
         THEN "pal" ELSE "none"

\* m_read.adirty = false; m_read.amin = ...; m_read.amax = ...
AlphaCached(r, range) == [r EXCEPT !.adirty = FALSE, !.amin = range[1], !.amax = range[2]]

\* void GSClut::GetAlphaMinMax32(int& amin_out, int& amax_out).  A failed
\* assertion is recorded in the call; the state is the one the build without
\* assertions goes on to.
GetAlphaMinMax32 ==
    /\ m_read' = IF m_read.adirty THEN AlphaCached(m_read, AlphaRange(m_read, m_buff32))
                  ELSE m_read
    /\ call' = [NoCall("GetAlphaMinMax32") EXCEPT
                    !.ret = m_read.adirty, !.failed = AlphaFailed(m_read),
                    !.amin = m_read'.amin, !.amax = m_read'.amax]
    /\ UNCHANGED <<m_clut, m_buff32, m_buff64, m_write, m_CBP, hist>>

----------------------------------------------------------------------------
(* SpecW: the write side under every load mode.  The caller passes a       *)
(* non-indexed and an indexed format, two base pointers and every load     *)
(* mode; invalidations come from local-memory writes to blocks             *)
(* 0..MaxBlock.                                                            *)

MaxBlock == 3
CbpW == {0, 4}
Tex0W ==
    {Tex0(psm, cbp, PSM_PSMCT32, 0, 0, cld) :
        psm \in {PSM_PSMCT32, PSM_PSMT4}, cbp \in CbpW, cld \in 0..7}
TexclutW == {Texclut(1, 0, 0)}

InitW ==
    \E w0 \in {Tex0(PSM_PSMT4, 0, PSM_PSMCT32, 0, 0, 1), Tex0(PSM_PSMCT32, 4, PSM_PSMCT32, 0, 0, 0)},
       cbp0 \in [{0, 1} -> CbpW] :
        Construct(w0, Texclut(1, 0, 0), NoTex0, NoTexa, cbp0, TRUE)

DoInvalidate == Invalidate
DoInvalidateRange == \E s \in 0..MaxBlock, e \in 0..MaxBlock : s <= e /\ InvalidateRange(s, e)
DoInvalidateBlock == \E b \in {0, 32} : InvalidateBlock(b)
DoWriteTestW == \E T \in Tex0W, C \in TexclutW : WriteTest(T, C)
DoWriteW == \E T \in Tex0W, C \in TexclutW : Write(T, C, 0)

NextW ==
    \/ DoInvalidate
    \/ DoInvalidateRange
    \/ DoInvalidateBlock
    \/ DoWriteTestW
    \/ DoWriteW

SpecW == InitW /\ [][NextW]_vars

(* C1: when every WriteTest that returns true is at once followed by Write *)
(* with the same registers and no invalidation comes between, a WriteTest  *)
(* called with the TEX0 and TEXCLUT of the WriteTest before it returns     *)
(* false, whatever the load mode.                                          *)
C1_RepeatedWriteTestIsFalse ==
    call.op = "WriteTest" /\ call.repeat # "no" => ~call.ret

\* A repeated WriteTest of load mode 2 whose first call made Write run.
C1_Witness ==
    /\ call.op = "WriteTest" /\ call.repeat = "after_write"
    /\ call.TEX0.CLD = 2 /\ ~call.ret

(* C2: WriteTest returns false when the load mode is 0, 6 or 7, also when  *)
(* the write side is dirty and the registers differ from the snapshot.     *)
C2_NoLoadModesAreFalse ==
    call.op = "WriteTest" /\ call.TEX0.CLD \in {0, 6, 7} => ~call.ret

\* Load mode 6 on an indexed format, the dirty flag set and the base
\* pointer not the one of the snapshot.
C2_Witness ==
    /\ call.op = "WriteTest" /\ call.TEX0.CLD = 6 /\ ~call.ret
    /\ call.TEX0.PSM \in IndexedPSM
    /\ m_write.dirty /\ m_write.TEX0.CBP # call.TEX0.CBP

(* C3: for an indexed format and load mode 4 (5), WriteTest returns false  *)
(* without a dirty check and without changing any state when TEX0.CBP is   *)
(* the value of slot 0 (1); else it stores TEX0.CBP in the slot and        *)
(* returns what the write-side dirty check returns.                        *)
C3_ConditionalLoadModes ==
    [][call'.op = "WriteTest" /\ call'.TEX0.PSM \in IndexedPSM
            /\ call'.TEX0.CLD \in {4, 5} =>
        IF m_CBP[call'.TEX0.CLD - 4] = call'.TEX0.CBP
        THEN /\ ~call'.ret
             /\ UNCHANGED <<m_clut, m_buff32, m_buff64, m_write, m_read, m_CBP>>
        ELSE /\ m_CBP' = [m_CBP EXCEPT ![call'.TEX0.CLD - 4] = call'.TEX0.CBP]
             /\ call'.ret = WriteIsDirty(m_write, call'.TEX0, call'.TEXCLUT)]_vars

\* Load mode 4 returned false although the write side is dirty: the base
\* pointer was the one in slot 0.
C3_Witness ==
    /\ call.op = "WriteTest" /\ call.TEX0.PSM \in IndexedPSM
    /\ call.TEX0.CLD = 4 /\ ~call.ret
    /\ m_write.dirty /\ m_CBP[0] = call.TEX0.CBP

(* C4: when (PSM & 7) < 3 WriteTest returns false under every load mode    *)
(* and leaves m_CBP[0], m_CBP[1], the write snapshot and the write dirty   *)
(* flag as they were.                                                      *)
C4_NonIndexedChangesNothing ==
    [][call'.op = "WriteTest" /\ Low3(call'.TEX0.PSM) < 3 =>
        ~call'.ret /\ UNCHANGED <<m_CBP, m_write>>]_vars

\* Load mode 2 on a non-indexed format with a base pointer slot 0 does not
\* hold, the write side dirty.
C4_Witness ==
    /\ call.op = "WriteTest" /\ Low3(call.TEX0.PSM) < 3
    /\ call.TEX0.CLD = 2 /\ ~call.ret
    /\ m_CBP[0] # call.TEX0.CBP /\ m_write.dirty

(* C6: InvalidateRange sets the write dirty flag exactly when the           *)
(* footprint (blocks consecutive blocks from the snapshot's CBP; blocks is *)
(* 4, halved for a 16-bit CPSM, halved again for a 4-bit PSM) meets the    *)
(* closed range [start_block, end_block]; else the flag keeps its value.   *)
C6_RangeMeetsFootprint ==
    [][call'.op = "InvalidateRange" =>
        LET first == m_write.TEX0.CBP
            last == m_write.TEX0.CBP + InvalidateBlocks(m_write.TEX0) - 1
            meets == \E b \in first..last : call'.start <= b /\ b <= call'.end
        IN  m_write'.dirty = (m_write.dirty \/ meets)]_vars

----------------------------------------------------------------------------
(* SpecF: the first calls on a fresh GSClut and the two dirty flags.  The  *)
(* caller loads 4-bit palettes under the load modes 1..5 and reads with an *)
(* indexed and with a non-indexed format.                                  *)

Tex0F == {Tex0(PSM_PSMT4, cbp, PSM_PSMCT32, 0, 0, cld) : cbp \in CbpW, cld \in 1..5}
Tex0ReadF == {Tex0(psm, 0, PSM_PSMCT32, 0, 0, 1) : psm \in {PSM_PSMT4, PSM_PSMCT32}}

InitF ==
    \E cbp0 \in [{0, 1} -> CbpW], r0 \in Tex0ReadF :
        Construct(NoTex0, NoTexclut, r0, NoTexa, cbp0, TRUE)

DoWriteTestF == \E T \in Tex0F : WriteTest(T, NoTexclut)
DoWriteF == \E T \in Tex0F : Write(T, NoTexclut, 0)
DoRead32F == \E T \in Tex0ReadF : Read32(T, NoTexa)

NextF ==
    \/ DoInvalidate
    \/ DoWriteTestF
    \/ DoWriteF
    \/ DoRead32F

SpecF == InitF /\ [][NextF]_vars

(* C5: every Write leaves the write snapshot equal to the incoming         *)
(* registers, the write dirty flag clear and the read dirty flag set;      *)
(* hence in every reachable state, a change of the palette that no         *)
(* expansion has followed implies that the read dirty flag is set.         *)
C5_UnexpandedChangeIsDirty ==
    /\ call.op = "Write" =>
            /\ m_write = [TEX0 |-> call.TEX0, TEXCLUT |-> call.TEXCLUT, dirty |-> FALSE]
            /\ m_read.dirty
    /\ hist.unexpanded => m_read.dirty

(* C7 (as the code has it): on a fresh GSClut the first WriteTest with an  *)
(* indexed format returns true under load modes 1, 2 and 3, and under load *)
(* mode 4 (5) exactly when TEX0.CBP is not the value slot 0 (1) holds; the *)
(* first Read32 takes the expansion branch.                                *)
C7_FirstCalls ==
    [][/\ call'.op = "WriteTest" /\ call'.first /\ call'.TEX0.PSM \in IndexedPSM =>
            /\ call'.TEX0.CLD \in 1..3 => call'.ret
            /\ call'.TEX0.CLD \in {4, 5} =>
                    call'.ret = (m_CBP[call'.TEX0.CLD - 4] # call'.TEX0.CBP)
       /\ call'.op = "Read32" /\ call'.first => call'.ret]_vars

\* The first WriteTest, of load mode 4 with the base pointer slot 0 holds.
C7_Witness ==
    /\ call.op = "WriteTest" /\ call.first /\ call.TEX0.PSM \in IndexedPSM
    /\ call.TEX0.CLD = 4 /\ m_CBP[0] = call.TEX0.CBP /\ ~call.ret

(* C7 as stated: the first WriteTest with an indexed format and a load     *)
(* mode in 1..5 returns true, the first Read32 takes the expansion branch. *)
C7_AsStated ==
    /\ call.op = "WriteTest" /\ call.first /\ call.TEX0.PSM \in IndexedPSM
            /\ call.TEX0.CLD \in 1..5 => call.ret
    /\ call.op = "Read32" /\ call.first => call.ret

----------------------------------------------------------------------------
(* SpecK: one call on a fresh GSClut for every key of the dispatch table   *)
(* and every column-select value: Write for each m_wc[CSM][CPSM][PSM] and  *)
(* CSA, Read32 for each (CPSM, PSM) and CSA.                               *)

Tex0K ==
    {Tex0(psm, 0, cpsm, csm, csa, 1) :
        psm \in 0..63, cpsm \in 0..15, csm \in {0, 1}, csa \in 0..31}

InitK == Construct(NoTex0, NoTexclut, NoTex0, NoTexa, [i \in {0, 1} |-> 0], TRUE)

DoWriteK == call.op = "GSClut" /\ \E T \in Tex0K : Write(T, Texclut(1, 0, 0), 0)
DoRead32K == call.op = "GSClut" /\ \E T \in Tex0K : T.CSM = 0 /\ Read32(T, Texa(128, 0, 255))

NextK ==
    \/ DoWriteK
    \/ DoRead32K

SpecK == InitK /\ [][NextK]_vars

\* The routines that load or expand a palette of 32-bit colours, or 16
\* entries of a palette of 16-bit colours.
WithinFirst512 ==
    {"WriteCLUT32_I8_CSM1", "WriteCLUT32_I4_CSM1", "WriteCLUT32_CSM2_16",
     "WriteCLUT16_I4_CSM1", "WriteCLUT16S_I4_CSM1", "WriteCLUT16_CSM2_16",
     "WriteCLUT16S_CSM2_16", "T32_I8", "T32_I4", "T16_I4"}

(* C8 (as the code has it): a key resolves to a load routine exactly when  *)
(* CPSM is one of the four colour formats and, for CSM1, the low three     *)
(* bits of PSM are 3 or 4 (which holds for the five indexed formats and    *)
(* for other PSM codes too), for CSM2, PSM is one of the five indexed      *)
(* formats; every other key resolves to WriteCLUT_NULL, under which Write  *)
(* stores nothing into the palette and does not fail.                      *)
C8_DispatchTable ==
    call.op = "Write" =>
        /\ (call.routine # "WriteCLUT_NULL") =
                /\ call.TEX0.CPSM \in ColorCPSM
                /\ IF call.TEX0.CSM = 0 THEN Low3(call.TEX0.PSM) \in {3, 4}
                   ELSE call.TEX0.PSM \in IndexedPSM
        /\ call.routine = "WriteCLUT_NULL" => call.clutMin = -1 /\ ~call.changed

\* Write with CSM1 and a PSM code that is no indexed format ran a routine
\* that changed the palette.
C8_Witness ==
    /\ call.op = "Write" /\ call.TEX0.CSM = 0 /\ call.TEX0.PSM \notin IndexedPSM
    /\ call.routine = "WriteCLUT32_I8_CSM1" /\ call.changed

(* C8 as stated: every key whose PSM is none of the five indexed formats   *)
(* or whose CPSM is none of the four colour formats resolves to            *)
(* WriteCLUT_NULL; for CSM2 exactly the 4 x 5 combinations are wired.      *)
C8_AsStated ==
    call.op = "Write" =>
        /\ call.TEX0.PSM \notin IndexedPSM \/ call.TEX0.CPSM \notin ColorCPSM =>
                call.routine = "WriteCLUT_NULL" /\ ~call.changed
        /\ call.TEX0.CSM = 1 =>
                (call.routine # "WriteCLUT_NULL") =
                    (call.TEX0.PSM \in IndexedPSM /\ call.TEX0.CPSM \in ColorCPSM)

(* C9 (as the code has it): for every CSA in 0..31 each palette index a    *)
(* routine reads or writes lies in [0, 752), inside the 1024 entries of    *)
(* m_clut, and in [0, 512) for the routines of WithinFirst512; each index  *)
(* of the expanded buffer lies in [0, 256) and each index of the duplicate *)
(* buffer in [0, 256): no access leaves the buffer it is made to.          *)
C9_AccessesStayInBuffers ==
    /\ call.clutMin # -1 =>
            /\ 0 <= call.clutMin /\ call.clutMax < 752 /\ call.clutMax < ClutEntries
            /\ call.routine \in WithinFirst512 => call.clutMax < 512
    /\ call.b32Min # -1 => 0 <= call.b32Min /\ call.b32Max < Buff32Entries
    /\ call.b64Min # -1 => 0 <= call.b64Min /\ call.b64Max < Buff64Entries

\* An expansion of 256 16-bit entries with CSA 31 read palette entry 751
\* and filled the expanded buffer.
C9_Witness ==
    /\ call.op = "Read32" /\ call.TEX0.CSA = 31 /\ call.routine = "T16_I8"
    /\ call.clutMax = 751 /\ call.b32Max = 255

(* C9 as stated: every palette index read or written lies in [0, 512) and  *)
(* every index of the expanded buffer in [0, 256).                         *)
C9_AsStated ==
    /\ call.clutMin # -1 => 0 <= call.clutMin /\ call.clutMax < 512
    /\ call.b32Min # -1 => 0 <= call.b32Min /\ call.b32Max < 256

----------------------------------------------------------------------------
(* SpecR: loads and expansions of palettes of 32-bit colours: an 8-bit and *)
(* a 4-bit indexed format that the bit-depth table gives the same depth,   *)
(* two base pointers.                                                      *)

Tex0R == {Tex0(psm, cbp, PSM_PSMCT32, 0, 0, 1) : psm \in {PSM_PSMT8H, PSM_PSMT4HL}, cbp \in CbpW}

InitR == \E r0 \in Tex0R : Construct(NoTex0, NoTexclut, r0, NoTexa, [i \in {0, 1} |-> 0], TRUE)

DoWriteR == \E T \in Tex0R : Write(T, NoTexclut, 0)
DoRead32R == \E T \in Tex0R : Read32(T, NoTexa)

NextR ==
    \/ DoWriteR
    \/ DoRead32R

SpecR == InitR /\ [][NextR]_vars

(* C10: after any sequence of calls, when Read32 returns for an indexed    *)
(* PSM and a supported CPSM, the expanded buffer equals a fresh expansion  *)
(* of the current palette under that TEX0 and TEXA.                        *)
C10_ExpandedIsFresh ==
    call.op = "Read32" /\ call.TEX0.PSM \in IndexedPSM /\ call.TEX0.CPSM \in ColorCPSM =>
        Holds(m_buff32, ExpandStores(m_clut, call.TEX0, call.TEXA))

----------------------------------------------------------------------------
(* SpecA: the read side.  The caller loads a 256-entry palette of 32-bit   *)
(* colours, reads it as 24-bit and as 16-bit colours with an 8-bit format, *)
(* as 32-bit colours with a 4-bit and with a non-indexed format, each      *)
(* under two TEXA values, and asks for the alpha range.                    *)

Tex0WriteA == {Tex0(PSM_PSMT8, 0, PSM_PSMCT32, 0, 0, 1)}
Tex0ReadA ==
    {Tex0(PSM_PSMT8, 0, PSM_PSMCT24, 0, 0, 1), Tex0(PSM_PSMT8, 0, PSM_PSMCT16, 0, 0, 1),
     Tex0(PSM_PSMT4, 0, PSM_PSMCT32, 0, 0, 1), Tex0(PSM_PSMCT32, 0, PSM_PSMCT32, 0, 0, 1)}
TexaA == {Texa(128, 0, 255), Texa(64, 1, 255)}

InitA == Construct(NoTex0, NoTexclut, NoTex0, NoTexa, [i \in {0, 1} |-> 0], TRUE)

DoWriteA == \E T \in Tex0WriteA : Write(T, NoTexclut, 0)
DoRead32A == \E T \in Tex0ReadA, A \in TexaA : Read32(T, A)
DoGetAlphaMinMax32 == GetAlphaMinMax32

NextA ==
    \/ DoWriteA
    \/ DoRead32A
    \/ DoGetAlphaMinMax32

SpecA == InitA /\ [][NextA]_vars

(* C11: a Read32 that no Read32 precedes since the last Write takes the    *)
(* expansion branch whatever its arguments; a Read32 called with the TEX0  *)
(* and TEXA of the Read32 before it, no Write between the two, does not    *)
(* expand: the expanded buffers and the alpha-range-stale flag keep their  *)
(* values.                                                                 *)
C11_ReadAfterWriteAndReread ==
    [][call'.op = "Read32" =>
        /\ call'.afterLoad => call'.ret
        /\ call'.repeat = "after_read" =>
                /\ ~call'.ret
                /\ UNCHANGED <<m_buff32, m_buff64>>
                /\ m_read'.adirty = m_read.adirty]_vars

\* A Read32 repeated after a Write, a Read32 and a GetAlphaMinMax32: it did
\* not expand and the alpha range is still not stale.
C11_Witness ==
    /\ call.op = "Read32" /\ call.repeat = "after_read" /\ ~call.ret
    /\ ~m_write.dirty /\ ~m_read.adirty /\ m_buff32 # NoStores

(* C12: GetAlphaMinMax32 fails no assertion when the read-side dirty flag  *)
(* is clear (the call leaves that flag as it was).                         *)
C12_NoAssertionFails ==
    call.op = "GetAlphaMinMax32" /\ ~m_read.dirty => call.failed = "none"

(* C13: when the alpha range is stale, the snapshot's CPSM has trbpp 24    *)
(* and its TEXA.AEM is 0, GetAlphaMinMax32 gives amin = amax = TEXA.TA0 of *)
(* the snapshot, whatever the expanded buffer holds.                       *)
C13_ConstantAlpha24 ==
    [][(call'.op = "GetAlphaMinMax32" /\ m_read.adirty
            /\ PsmTrbpp(m_read.TEX0.CPSM) = 24 /\ m_read.TEXA.AEM = 0) =>
        (call'.amin = m_read.TEXA.TA0 /\ call'.amax = m_read.TEXA.TA0)]_vars

\* The constant came back although the alpha bytes of the expanded buffer
\* have another range.
C13_Witness ==
    /\ call.op = "GetAlphaMinMax32" /\ call.ret /\ call.failed = "none"
    /\ PsmTrbpp(m_read.TEX0.CPSM) = 24 /\ m_read.TEXA.AEM = 0
    /\ call.amin = m_read.TEXA.TA0 /\ call.amax = m_read.TEXA.TA0
    /\ AlphaReduce(m_buff32, 64) # <<m_read.TEXA.TA0, m_read.TEXA.TA0>>

----------------------------------------------------------------------------
(* SpecE: one load on a fresh GSClut, then one expansion.  The caller      *)
(* loads 256 and 16 entries of 32-bit and of 16-bit colours from two base  *)
(* pointers and reads with an 8-bit and a 4-bit format, three colour       *)
(* formats, five column-select values and both alpha-expansion modes.      *)

Tex0WriteE ==
    {Tex0(psm, cbp, cpsm, 0, 0, 1) :
        psm \in {PSM_PSMT8, PSM_PSMT4}, cbp \in CbpW, cpsm \in {PSM_PSMCT32, PSM_PSMCT16}}
Tex0ReadE ==
    {Tex0(psm, 0, cpsm, 0, csa, 1) :
        psm \in {PSM_PSMT8, PSM_PSMT4},
        cpsm \in {PSM_PSMCT32, PSM_PSMCT24, PSM_PSMCT16},
        csa \in {0, 1, 8, 15, 17}}
TexaE == {Texa(128, 0, 255), Texa(128, 1, 255)}

InitE == Construct(NoTex0, NoTexclut, NoTex0, NoTexa, [i \in {0, 1} |-> 0], TRUE)

DoWriteE == call.op = "GSClut" /\ \E T \in Tex0WriteE : Write(T, NoTexclut, 0)
DoRead32E == call.op = "Write" /\ \E T \in Tex0ReadE, A \in TexaE : Read32(T, A)

NextE ==
    \/ DoWriteE
    \/ DoRead32E

SpecE == InitE /\ [][NextE]_vars

(* C14: Expand16 gives for the raw 16-bit palette value c the 32-bit value *)
(* whose byte 0 is (c & 0x1f) << 3, byte 1 is ((c >> 5) & 0x1f) << 3, byte *)
(* 2 is ((c >> 10) & 0x1f) << 3 and byte 3 is the alpha: TA1 when bit 15   *)
(* of c is set, else TA0, except that with AEM = 1 it is 0 for c = 0.      *)
C14_Expand16Colours ==
    call.op = "Read32" /\ call.ret /\ call.routine \in {"T16_I8", "T16_I4"} =>
        \A i \in 0..((IF call.routine = "T16_I8" THEN 256 ELSE 16) - 1) :
            LET c == Entry16(m_clut, 16 * call.TEX0.CSA + i)
                e == Entry32(m_buff32, i)
                alpha == IF call.TEXA.AEM = 1 /\ c = 0 THEN 0
                         ELSE IF (c \div 32768) % 2 = 1 THEN call.TEXA.TA1
                         ELSE call.TEXA.TA0
            IN  /\ e[1] % 256 = (c % 32) * 8
                /\ e[1] \div 256 = ((c \div 32) % 32) * 8
                /\ e[2] % 256 = ((c \div 1024) % 32) * 8
                /\ e[2] \div 256 = alpha

\* With AEM = 1 an expansion of 256 loaded 16-bit entries gave alpha 0 to an
\* entry that is 0, TA1 to one with bit 15 set and TA0 to one without.
C14_Witness ==
    /\ call.op = "Read32" /\ call.ret /\ call.routine = "T16_I8"
    /\ call.TEXA.AEM = 1 /\ m_write.TEX0.CPSM = PSM_PSMCT16
    /\ \E i \in 0..255 : Entry16(m_clut, 16 * call.TEX0.CSA + i) = 0
                            /\ Entry32(m_buff32, i)[2] \div 256 = 0
    /\ \E i \in 0..255 : Entry16(m_clut, 16 * call.TEX0.CSA + i) >= 32768
                            /\ Entry32(m_buff32, i)[2] \div 256 = call.TEXA.TA1
    /\ \E i \in 0..255 : Entry16(m_clut, 16 * call.TEX0.CSA + i) \in 1..32767
                            /\ Entry32(m_buff32, i)[2] \div 256 = call.TEXA.TA0

\* Where local memory keeps the colour of palette index i of a 256-entry
\* palette of 32-bit colours stored at a base pointer: the palette is a
\* 16 x 16 rectangle of PSMCT32 pixels, index i with its bits 3 and 4
\* exchanged counted along the rows; the rectangle is four 8 x 8 blocks
\* (0 1 over 2 3) of 64 words, and the pixel (x, y) of a block is its word
\* columnTable32[y][x].  The value is the word counted from the base.
ColumnTable32(y, x) == 16 * (y \div 2) + 2 * (y % 2) + 4 * (x \div 2) + (x % 2)
ClutPixel(i) ==
    (i % 8) + 8 * ((i \div 16) % 2) + 16 * ((i \div 8) % 2) + 32 * (i \div 32)
ClutWord32(i) ==
    LET x == ClutPixel(i) % 16
        y == ClutPixel(i) \div 16
    IN  64 * ((x \div 8) + 2 * (y \div 8)) + ColumnTable32(y % 8, x % 8)

(* C15: after WriteCLUT32_I8_CSM1 with CSA = 0 has loaded a 256-entry      *)
(* palette, Read32 for an 8-bit format and 32-bit storage with CSA = 0     *)
(* leaves in entry i of the expanded buffer the colour of palette index i  *)
(* of the source, for every i in 0..255.                                   *)
C15_LoadThenExpand ==
    (/\ call.op = "Read32" /\ call.routine = "T32_I8" /\ call.TEX0.CSA = 0
     /\ m_write.TEX0.PSM = PSM_PSMT8 /\ m_write.TEX0.CPSM = PSM_PSMCT32) =>
        \A i \in 0..255 :
            Entry32(m_buff32, i) =
                <<Mem16(0, BlockPtr(m_write.TEX0.CBP), 2 * ClutWord32(i)),
                  Mem16(0, BlockPtr(m_write.TEX0.CBP), 2 * ClutWord32(i) + 1)>>

\* The round trip from base pointer 4: entry 8 of the expanded buffer is
\* word ClutWord32(8) = 2 of the source, not word 8.
C15_Witness ==
    /\ call.op = "Read32" /\ call.routine = "T32_I8" /\ call.TEX0.CSA = 0
    /\ m_write.TEX0.PSM = PSM_PSMT8 /\ m_write.TEX0.CPSM = PSM_PSMCT32
    /\ m_write.TEX0.CBP = 4
    /\ Entry32(m_buff32, 8) = <<Mem16(0, BlockPtr(4), 2 * ClutWord32(8)),
                                Mem16(0, BlockPtr(4), 2 * ClutWord32(8) + 1)>>
    /\ Entry32(m_buff32, 8) # <<Mem16(0, BlockPtr(4), 16), Mem16(0, BlockPtr(4), 17)>>

(* C16: for an 8-bit format in 32-bit or 24-bit storage, group g (0..15)   *)
(* of the expanded buffer comes from the palette address                   *)
(* min(16 * g + 16 * (CSA & 15), 240): expanded entry 16 * g + k has its   *)
(* low half from palette entry address + k and its high half from entry    *)
(* address + 256 + k.  Past 240 the address stays 240; it does not wrap.   *)
C16_ClampedGroupAddress ==
    call.op = "Read32" /\ call.ret /\ call.routine = "T32_I8" =>
        \A g \in 0..15 :
            LET sum == 16 * g + 16 * (call.TEX0.CSA % 16)
                addr == IF sum > 240 THEN 240 ELSE sum
            IN  \A k \in 0..15 :
                    Entry32(m_buff32, 16 * g + k) =
                        <<Entry16(m_clut, addr + k), Entry16(m_clut, addr + 256 + k)>>

\* With CSA = 1 over a loaded palette, group 15 holds the colours at
\* palette address 240, which are not those at address 0.
C16_Witness ==
    /\ call.op = "Read32" /\ call.ret /\ call.routine = "T32_I8"
    /\ call.TEX0.CSA = 1 /\ call.TEX0.CPSM = PSM_PSMCT24
    /\ m_write.TEX0.PSM = PSM_PSMT8 /\ m_write.TEX0.CPSM = PSM_PSMCT32
    /\ Entry32(m_buff32, 240) = <<Entry16(m_clut, 240), Entry16(m_clut, 496)>>
    /\ Entry32(m_buff32, 240) # <<Entry16(m_clut, 0), Entry16(m_clut, 256)>>

----------------------------------------------------------------------------
(* SpecD: the write-side dirty check.  The caller tests a register and the *)
(* registers that differ from it in one field (PSM of the same and of      *)
(* another bit depth, CBP, CPSM, CSM, CSA, CLD), each with two TEXCLUT     *)
(* values, loads with either load style, reads, and local memory is        *)
(* written in blocks 0..MaxBlock and 32.                                   *)

Tex0D ==
    {Tex0(PSM_PSMT4HL, 0, PSM_PSMCT32, 0, 0, 1), Tex0(PSM_PSMT4HH, 0, PSM_PSMCT32, 0, 0, 1),
     Tex0(PSM_PSMT8, 0, PSM_PSMCT32, 0, 0, 1), Tex0(PSM_PSMT4HL, 4, PSM_PSMCT32, 0, 0, 1),
     Tex0(PSM_PSMT4HL, 0, PSM_PSMCT16, 0, 0, 1), Tex0(PSM_PSMT4HL, 0, PSM_PSMCT32, 1, 0, 1),
     Tex0(PSM_PSMT4HL, 0, PSM_PSMCT32, 0, 1, 1), Tex0(PSM_PSMT4HL, 0, PSM_PSMCT32, 0, 0, 2)}
Tex0WriteD ==
    {Tex0(PSM_PSMT4HL, 0, PSM_PSMCT32, 0, 0, 1), Tex0(PSM_PSMT4HL, 0, PSM_PSMCT32, 1, 0, 1),
     Tex0(PSM_PSMT4HL, 4, PSM_PSMCT32, 0, 0, 1)}
TexclutD == {Texclut(1, 0, 0), Texclut(1, 1, 0)}

InitD == Construct(NoTex0, NoTexclut, NoTex0, NoTexa, [i \in {0, 1} |-> 0], TRUE)

DoWriteTestD == \E T \in Tex0D, C \in TexclutD : WriteTest(T, C)
DoWriteD == \E T \in Tex0WriteD : Write(T, Texclut(1, 0, 0), 0)
DoRead32D == Read32(Tex0(PSM_PSMT4HL, 0, PSM_PSMCT32, 0, 0, 1), NoTexa)

NextD ==
    \/ DoInvalidate
    \/ DoInvalidateRange
    \/ DoInvalidateBlock
    \/ DoWriteTestD
    \/ DoWriteD
    \/ DoRead32D

SpecD == InitD /\ [][NextD]_vars

(* C17 (as the code has it): a WriteTest that reaches the dirty check      *)
(* returns true exactly when the write dirty flag is set, or TEX0 differs  *)
(* from the snapshot in CSA, CSM (the load style), CPSM or CBP, or the bit *)
(* depth of the texture format PSM differs from that of the snapshot's     *)
(* PSM, or CSM is 1 and TEXCLUT differs from the snapshot's.  A change of  *)
(* the load mode CLD alone asks for no reload.                             *)
C17_ReloadCondition ==
    [][call'.op = "WriteTest" /\ ReachesDirtyCheck(m_CBP, call'.TEX0) =>
        call'.ret =
            \/ m_write.dirty
            \/ call'.TEX0.CSA # m_write.TEX0.CSA
            \/ call'.TEX0.CSM # m_write.TEX0.CSM
            \/ call'.TEX0.CPSM # m_write.TEX0.CPSM
            \/ call'.TEX0.CBP # m_write.TEX0.CBP
            \/ PsmBpp(call'.TEX0.PSM) # PsmBpp(m_write.TEX0.PSM)
            \/ (call'.TEX0.CSM = 1 /\ call'.TEXCLUT # m_write.TEXCLUT)]_vars

\* A reload asked for only because the bit depth of PSM is not that of the
\* snapshot's PSM: the flag is clear and CSA, CSM, CPSM, CBP agree.
C17_Witness ==
    /\ call.op = "WriteTest" /\ call.ret /\ ~m_write.dirty
    /\ Tex0Masked(m_write.TEX0) = Tex0Masked(call.TEX0)
    /\ call.TEX0.CSM = 0 /\ call.TEX0.CLD = m_write.TEX0.CLD
    /\ PsmBpp(call.TEX0.PSM) # PsmBpp(m_write.TEX0.PSM)

(* C17 as stated: the reload is required exactly when the flag is set, or  *)
(* TEX0 differs from the snapshot in CSA, CLD, CPSM or CBP, or the bit     *)
(* depth of CPSM differs from that of the snapshot's CPSM, or CSM is 1 and *)
(* TEXCLUT differs from the snapshot's.                                    *)
C17_AsStated ==
    [][call'.op = "WriteTest" /\ ReachesDirtyCheck(m_CBP, call'.TEX0) =>
        call'.ret =
            \/ m_write.dirty
            \/ call'.TEX0.CSA # m_write.TEX0.CSA
            \/ call'.TEX0.CLD # m_write.TEX0.CLD
            \/ call'.TEX0.CPSM # m_write.TEX0.CPSM
            \/ call'.TEX0.CBP # m_write.TEX0.CBP
            \/ PsmBpp(call'.TEX0.CPSM) # PsmBpp(m_write.TEX0.CPSM)
            \/ (call'.TEX0.CSM = 1 /\ call'.TEXCLUT # m_write.TEXCLUT)]_vars

(* C18 (as the code has it): a WriteTest that reaches the dirty check and  *)
(* finds no reload needed stores the incoming TEX0 and TEXCLUT in the      *)
(* write-side snapshot (CSA, CSM, CPSM and CBP were equal already; PSM,    *)
(* CLD and, under CSM 0, TEXCLUT take the incoming values) and leaves the  *)
(* flag clear; one that finds a reload needed leaves the write side as it  *)
(* was.                                                                    *)
C18_SnapshotAfterCheck ==
    [][call'.op = "WriteTest" /\ ReachesDirtyCheck(m_CBP, call'.TEX0) =>
        IF call'.ret THEN m_write' = m_write
        ELSE /\ m_write' = [TEX0 |-> call'.TEX0, TEXCLUT |-> call'.TEXCLUT, dirty |-> FALSE]
             /\ Tex0Masked(m_write'.TEX0) = Tex0Masked(m_write.TEX0)]_vars

\* A WriteTest that found no reload needed and changed the snapshot.
C18_Witness ==
    /\ call.op = "WriteTest" /\ ~call.ret /\ call.stored
    /\ m_write.TEX0 = call.TEX0 /\ m_write.TEXCLUT = call.TEXCLUT

(* C18 as stated: a WriteTest that reaches the dirty check and finds no    *)
(* reload needed leaves the stored TEX0 and TEXCLUT unchanged.             *)
C18_AsStated ==
    [][call'.op = "WriteTest" /\ ReachesDirtyCheck(m_CBP, call'.TEX0) /\ ~call'.ret =>
        m_write'.TEX0 = m_write.TEX0 /\ m_write'.TEXCLUT = m_write.TEXCLUT]_vars

(* C19: once set, the write dirty flag stays set until Write is called,    *)
(* across WriteTest, Read32 and the invalidations, and every WriteTest     *)
(* that reaches the dirty check meanwhile returns true.                    *)
C19_DirtyUntilWrite ==
    [][m_write.dirty /\ call'.op # "Write" =>
        /\ m_write'.dirty
        /\ call'.op = "WriteTest" /\ ReachesDirtyCheck(m_CBP, call'.TEX0) => call'.ret]_vars

\* After a Write and an invalidation, a WriteTest with the registers of the
\* snapshot returned true.
C19_Witness ==
    /\ call.op = "WriteTest" /\ call.ret /\ m_write.dirty /\ hist.wt = "pending"
    /\ m_clut # NoStores
    /\ m_write.TEX0 = call.TEX0 /\ m_write.TEXCLUT = call.TEXCLUT

(* C20: Invalidate(block) sets the write dirty flag exactly when block and *)
(* the snapshot's CBP lie in the same page of 32 blocks; it never clears   *)
(* the flag and changes nothing else.                                      *)
C20_InvalidateBlockPage ==
    [][call'.op = "InvalidateBlock" =>
        /\ m_write'.dirty =
                \/ m_write.dirty
                \/ \E page \in 0..511 :
                        /\ call'.start \in (32 * page)..(32 * page + 31)
                        /\ m_write.TEX0.CBP \in (32 * page)..(32 * page + 31)
        /\ m_write'.TEX0 = m_write.TEX0 /\ m_write'.TEXCLUT = m_write.TEXCLUT
        /\ UNCHANGED <<m_clut, m_buff32, m_buff64, m_read, m_CBP>>]_vars

\* Invalidate(0) with the palette loaded from block 4, which is another
\* block of the same page: the flag is set.
C20_Witness ==
    /\ call.op = "InvalidateBlock" /\ call.start = 0
    /\ m_write.TEX0.CBP = 4 /\ m_write.dirty /\ m_clut # NoStores

----------------------------------------------------------------------------
(* SpecT: the read-side dirty check.  One palette is loaded; Read32 is     *)
(* called with an 8-bit format (32-bit and 24-bit colours), a 4-bit format *)
(* of the same bit depth (32-bit and both 16-bit colours) and a format     *)
(* that is not indexed, under four TEXA values that differ in TA0, AEM or  *)
(* TA1.                                                                    *)

Tex0ReadT ==
    {Tex0(PSM_PSMT8H, 0, cpsm, 0, 0, 1) : cpsm \in {PSM_PSMCT32, PSM_PSMCT24}}
        \cup {Tex0(PSM_PSMT4HL, 0, cpsm, 0, 0, 1) : cpsm \in {PSM_PSMCT32, PSM_PSMCT16, PSM_PSMCT16S}}
        \cup {Tex0(PSM_PSMCT32, 0, PSM_PSMCT32, 0, 0, 1)}
TexaT == {Texa(128, 0, 255), Texa(64, 0, 255), Texa(128, 1, 255), Texa(128, 0, 0)}

DoRead32T == \E T \in Tex0ReadT, A \in TexaT : Read32(T, A)

NextT ==
    \/ DoWriteA
    \/ DoRead32T

SpecT == InitA /\ [][NextT]_vars

(* C21: a Read32 that finds the read dirty flag clear and CSA, CSM, CPSM,  *)
(* CBP and the bit depth of PSM as in the snapshot expands again exactly   *)
(* when, for CPSM PSMCT24, TA0 or AEM differs from the snapshot's TEXA;    *)
(* for CPSM PSMCT16 or PSMCT16S, TA0, TA1 or AEM differs; for PSMCT32      *)
(* never.  When it does, for an indexed format, the expanded buffer holds  *)
(* the expansion under the incoming TEXA.                                  *)
C21_TexaChangeReexpands ==
    [][(/\ call'.op = "Read32" /\ ~m_read.dirty /\ call'.TEX0.CPSM \in ColorCPSM
        /\ call'.TEX0.CSA = m_read.TEX0.CSA /\ call'.TEX0.CSM = m_read.TEX0.CSM
        /\ call'.TEX0.CPSM = m_read.TEX0.CPSM /\ call'.TEX0.CBP = m_read.TEX0.CBP
        /\ PsmBpp(call'.TEX0.PSM) = PsmBpp(m_read.TEX0.PSM)) =>
        (/\ call'.ret =
                IF call'.TEX0.CPSM = PSM_PSMCT24
                THEN call'.TEXA.TA0 # m_read.TEXA.TA0 \/ call'.TEXA.AEM # m_read.TEXA.AEM
                ELSE IF call'.TEX0.CPSM \in {PSM_PSMCT16, PSM_PSMCT16S}
                THEN \/ call'.TEXA.TA0 # m_read.TEXA.TA0
                     \/ call'.TEXA.TA1 # m_read.TEXA.TA1
                     \/ call'.TEXA.AEM # m_read.TEXA.AEM
                ELSE FALSE
         /\ (call'.ret /\ call'.TEX0.PSM \in IndexedPSM) =>
                Holds(m_buff32', ExpandStores(m_clut, call'.TEX0, call'.TEXA))
         /\ ~call'.ret => UNCHANGED <<m_buff32, m_buff64>>)]_vars

\* A Read32 with CPSM PSMCT24 that did not expand although its arguments
\* are not those of the Read32 before it: TA1 alone differs.
C21_Witness ==
    /\ call.op = "Read32" /\ ~call.ret /\ call.repeat = "no" /\ ~call.afterLoad
    /\ call.TEX0.CPSM = PSM_PSMCT24 /\ call.TEXA.TA1 = 0
    /\ m_clut # NoStores /\ m_buff32 # NoStores

(* C22: Read32 clears the read dirty flag and stores the incoming TEX0 and  *)
(* TEXA only when it has expanded: a Read32 that finds the flag set and    *)
(* whose (CPSM, PSM) matches no case of its switches leaves the flag set   *)
(* and the read-side snapshot as it was.                                   *)
C22_ClearsOnlyAfterExpansion ==
    [][(call'.op = "Read32" /\ m_read.dirty /\ ReadCase(call'.TEX0) = "none") =>
        (m_read'.dirty /\ m_read'.TEX0 = m_read.TEX0 /\ m_read'.TEXA = m_read.TEXA)]_vars

----------------------------------------------------------------------------
(* SpecG: the cached alpha range.  One palette of 32-bit colours is        *)
(* loaded and expanded with an 8-bit and a 4-bit format of the same bit    *)
(* depth, from two base pointers, with GetAlphaMinMax32 in between.        *)

NextG ==
    \/ DoWriteA
    \/ DoRead32R
    \/ DoGetAlphaMinMax32

SpecG == InitA /\ [][NextG]_vars

(* C23: whenever the read dirty flag and the alpha-stale flag are both     *)
(* clear, and it is not the constant case of a 24-bit CPSM with AEM 0, the *)
(* cached amin and amax are the least and the greatest alpha byte (bits    *)
(* 24..31) of entries 0..N-1 of the expanded buffer, N being the palette   *)
(* size (256 or 16) of the PSM in the read-side snapshot.                  *)
C23_CachedAlphaIsCurrent ==
    (/\ ~m_read.dirty /\ ~m_read.adirty
     /\ ~(PsmTrbpp(m_read.TEX0.CPSM) = 24 /\ m_read.TEXA.AEM = 0)
     /\ PsmPal(m_read.TEX0.PSM) \in {256, 16}) =>
        LET alphas == {Entry32(m_buff32, i)[2] \div 256 :
                            i \in 0..(PsmPal(m_read.TEX0.PSM) - 1)}
        IN  /\ m_read.amin \in alphas /\ m_read.amax \in alphas
            /\ \A a \in alphas : m_read.amin <= a /\ a <= m_read.amax

----------------------------------------------------------------------------
(* SpecL: the caller's sequence WriteTest, Write when it returned true,    *)
(* Read32 of what was loaded.  The registers: the table load of 256        *)
(* 32-bit colours from two base pointers with column-select 0, 1, 15 and   *)
(* 17; the coordinate-streamed load of 256 and of 16 32-bit colours with   *)
(* column-select 0, 1 and 15; and three registers whose PSM or CPSM is no  *)
(* format of a palette.  WriteTest is called while the palette holds what  *)
(* at most one load stored, so a second load meets the entries of a first. *)

DoWriteTestL ==
    /\ m_clut = NoStores \/ m_clut = LoadStores(m_write.TEX0, m_write.TEXCLUT, 0)
    /\ \E T \in {Tex0(PSM_PSMT8, cbp, PSM_PSMCT32, 0, csa, 1) : cbp \in CbpW, csa \in {0, 1, 15}}
            \cup {Tex0(PSM_PSMT8, 0, PSM_PSMCT32, 0, 17, 1)}
            \cup {Tex0(PSM_PSMT8, 0, PSM_PSMCT32, 1, csa, 1) : csa \in {0, 1, 15}}
            \cup {Tex0(PSM_PSMT4, 0, PSM_PSMCT32, 1, csa, 1) : csa \in {0, 1}}
            \cup {Tex0(PSM_PSMT8, 0, 3, 0, 0, 1), Tex0(7, 0, PSM_PSMCT32, 0, 0, 1),
                  Tex0(3, 0, PSM_PSMCT32, 1, 0, 1)} :
            WriteTest(T, Texclut(1, 0, 0))
DoWriteL == call.op = "WriteTest" /\ call.ret /\ Write(call.TEX0, call.TEXCLUT, 0)
DoRead32L == call.op = "Write" /\ Read32(call.TEX0, NoTexa)

NextL ==
    \/ DoWriteTestL
    \/ DoWriteL
    \/ DoRead32L

SpecL == InitA /\ [][NextL]_vars

(* C24: WriteCLUT32_CSM2<n>, n = 256 or 16, stores for each i < n the low   *)
(* half of the i-th 32-bit word fetched in palette entry base + i and its  *)
(* high half in entry base + i + 256, base = 16 * (CSA & 15), and changes  *)
(* no other entry; with CSA = 0, the Read32 that follows leaves the i-th   *)
(* word fetched in expanded entry i.                                       *)
C24_StreamedLoad32 ==
    [][/\ (call'.op = "Write" /\ call'.routine \in {"WriteCLUT32_CSM2_256", "WriteCLUT32_CSM2_16"}) =>
            LET n == IF call'.routine = "WriteCLUT32_CSM2_256" THEN 256 ELSE 16
                base == 16 * (call'.TEX0.CSA % 16)
                a == PaMulti(call'.TEX0.CBP, call'.TEXCLUT)
            IN  \A e \in 0..(ClutEntries - 1) :
                    Entry16(m_clut', e) =
                        IF e \in base..(base + n - 1) THEN Mem16(0, a, 2 * (e - base))
                        ELSE IF e \in (base + 256)..(base + 256 + n - 1)
                        THEN Mem16(0, a, 2 * (e - base - 256) + 1)
                        ELSE Entry16(m_clut, e)
       /\ (/\ call'.op = "Read32" /\ call.op = "Write" /\ call'.TEX0 = call.TEX0
           /\ call.routine \in {"WriteCLUT32_CSM2_256", "WriteCLUT32_CSM2_16"}
           /\ call.TEX0.CSA = 0) =>
            LET n == IF call.routine = "WriteCLUT32_CSM2_256" THEN 256 ELSE 16
                a == PaMulti(call.TEX0.CBP, call.TEXCLUT)
            IN  \A i \in 0..(n - 1) :
                    Entry32(m_buff32', i) = <<Mem16(0, a, 2 * i), Mem16(0, a, 2 * i + 1)>>]_vars

\* A streamed load of 256 colours with CSA 1 over an earlier table load:
\* entry 16 holds the low half of word 0, entry 527 the high half of word
\* 255, and entry 0 what the table load stored.
C24_Witness ==
    /\ call.op = "Write" /\ call.routine = "WriteCLUT32_CSM2_256" /\ call.TEX0.CSA = 1
    /\ Entry16(m_clut, 16) = Mem16(0, PaMulti(call.TEX0.CBP, call.TEXCLUT), 0)
    /\ Entry16(m_clut, 527) = Mem16(0, PaMulti(call.TEX0.CBP, call.TEXCLUT), 511)
    /\ Entry16(m_clut, 0) = Mem16(0, BlockPtr(4), 2 * ClutWord32(0))

(* C25: for an indexed TEX0, WriteTest with CLD 2 stores TEX0.CBP in        *)
(* m_CBP[0] and leaves m_CBP[1]; with CLD 3 it stores TEX0.CBP in m_CBP[1] *)
(* and leaves m_CBP[0]; with CLD 1 it leaves both; whatever the dirty      *)
(* check then answers.                                                     *)
C25_UnconditionalSlotStores ==
    [][(call'.op = "WriteTest" /\ Low3(call'.TEX0.PSM) >= 3) =>
        (/\ call'.TEX0.CLD = 2 => m_CBP'[0] = call'.TEX0.CBP /\ m_CBP'[1] = m_CBP[1]
         /\ call'.TEX0.CLD = 3 => m_CBP'[1] = call'.TEX0.CBP /\ m_CBP'[0] = m_CBP[0]
         /\ call'.TEX0.CLD = 1 => m_CBP' = m_CBP)]_vars

\* A WriteTest with CLD 3 that found no reload needed: slot 1 holds its
\* base pointer and slot 0 another.
C25_Witness ==
    /\ call.op = "WriteTest" /\ call.TEX0.CLD = 3 /\ ~call.ret
    /\ m_CBP[1] = call.TEX0.CBP /\ m_CBP[0] # call.TEX0.CBP /\ m_clut # NoStores

----------------------------------------------------------------------------
(* SpecI: the two sides together: the calls of SpecD, which are the        *)
(* invalidations, WriteTest with both answers, Write and Read32, and       *)
(* GetAlphaMinMax32.                                                       *)

NextI ==
    \/ NextD
    \/ DoGetAlphaMinMax32

SpecI == InitD /\ [][NextI]_vars

(* C26: Read32 and GetAlphaMinMax32 change neither the palette buffer nor  *)
(* the write-side snapshot, the write dirty flag or the base-pointer       *)
(* slots; WriteTest, Invalidate, Invalidate(block) and InvalidateRange     *)
(* change neither the palette buffer nor the expanded buffers, the         *)
(* read-side snapshot, the read dirty flag or the cached alpha range.      *)
C26_IndependentSides ==
    [][/\ call'.op \in {"Read32", "GetAlphaMinMax32"} =>
            UNCHANGED <<m_clut, m_write, m_CBP>>
       /\ call'.op \in {"WriteTest", "Invalidate", "InvalidateBlock", "InvalidateRange"} =>
            UNCHANGED <<m_clut, m_buff32, m_buff64, m_read>>]_vars

\* After a load, an expansion and GetAlphaMinMax32, an invalidation set the
\* write dirty flag and left the read side clean with its cached range.
C26_Witness ==
    /\ call.op \in {"Invalidate", "InvalidateBlock", "InvalidateRange"}
    /\ m_write.dirty /\ ~m_read.dirty /\ ~m_read.adirty
    /\ m_read.amax > 0 /\ m_buff32 # NoStores /\ m_clut # NoStores

(* C27: WriteTest returns true only for a TEX0 whose PSM is an indexed     *)
(* format, and the Write that follows a WriteTest that returned true,      *)
(* with the same TEX0, runs a load routine and never WriteCLUT_NULL.       *)
C27_TrueMeansRealLoad ==
    [][(call.op = "WriteTest" /\ call.ret /\ call'.op = "Write" /\ call'.TEX0 = call.TEX0) =>
        (call.TEX0.PSM \in IndexedPSM /\ call'.routine # "WriteCLUT_NULL")]_vars

\* Palette after holds, in the groups c..15 of entries 0..255 and of their
\* mirror 256..511, what the stores ref hold there, and elsewhere what
\* palette before holds.
GroupsFrom(c, ref, before, after) ==
    \A e \in 0..(ClutEntries - 1) :
        Entry16(after, e) =
            IF e \in (16 * c)..255 \/ e \in (256 + 16 * c)..511
            THEN Entry16(ref, e) ELSE Entry16(before, e)

(* C28: WriteCLUT32_I8_CSM1 with c = CSA & 15 stores the groups c..15 of   *)
(* the first 256 palette entries and their mirrors 256 higher, each with   *)
(* the values a load with c = 0 stores there, and changes no other entry:  *)
(* the groups 0..c-1 keep what they held and no store wraps past entry     *)
(* 255.                                                                    *)
C28_TableLoadFromGroup ==
    [][(call'.op = "Write" /\ call'.routine = "WriteCLUT32_I8_CSM1") =>
        \E ref \in {LoadStores([call'.TEX0 EXCEPT !.CSA = 0], call'.TEXCLUT, 0)} :
            GroupsFrom(call'.TEX0.CSA % 16, ref, m_clut, m_clut')]_vars

\* A table load from block 4 with CSA 15 over a load from block 0 with CSA
\* 0: group 15 holds the colours of block 4, entries 0 and 239 those of
\* block 0.
C28_Witness ==
    /\ call.op = "Write" /\ call.routine = "WriteCLUT32_I8_CSM1"
    /\ call.TEX0.CSA = 15 /\ call.TEX0.CBP = 4
    /\ Entry16(m_clut, 240) = Mem16(0, BlockPtr(4), 2 * ClutWord32(240))
    /\ Entry16(m_clut, 0) = Mem16(0, BlockPtr(0), 2 * ClutWord32(0))
    /\ Entry16(m_clut, 239) = Mem16(0, BlockPtr(0), 2 * ClutWord32(239))

====
